---------------------------- MODULE Spec2Model ----------------------------
(***************************************************************************)
(* A model of msgbox (src/src/msgbox.c): the socket reactor msg_runloop,   *)
(* the connection setup open_socket, the peer registry conn_status, the    *)
(* deferred callback queue immediate_callbacks, msg_disconnect and the     *)
(* header codec set_header / read_header.                                  *)
(*                                                                         *)
(* Representation of memory.  A byte string is never spelled out byte by   *)
(* byte except for the 8 header bytes: a payload is [src, len], the first  *)
(* len bytes of the byte stream named src, so two payloads are the same    *)
(* bytes iff both fields agree.  Pointers are indexes: a msg_Conn * is an  *)
(* index of conn_objs, a buffer pointer an index of heap, 0 is NULL.       *)
(***************************************************************************)
EXTENDS Integers, Sequences, FiniteSets, TLC

(***************************************************************************)
(* Bounds of the model.                                                    *)
(***************************************************************************)
MaxConns == 2
MaxFrames == 2
MaxTicks == 2
MaxFaults == 1
MaxDisconnects == 1

(***************************************************************************)
(* Program constants.                                                      *)
(***************************************************************************)
header_len == 8
recv_buffer_len == 32768
one_way == 0
request == 1
reply == 2
heartbeat == 3
close == 4
NULL == 0
INADDR_ANY == 0
SOCK_STREAM == 1
SOCK_DGRAM == 2

U16 == 0..65535

Min(a, b) == IF a < b THEN a ELSE b

(***************************************************************************)
(* Wire codec.  le is the byte order of the host that runs the code:       *)
(* TRUE on a little-endian host.  htons/ntohs swap the two bytes of a      *)
(* 16-bit value there and are the identity on a big-endian host; a         *)
(* uint16_t in memory is two bytes in the host's order.                    *)
(***************************************************************************)
Swap16(x) == (x % 256) * 256 + (x \div 256)

\* Mutant: no conversion to network byte order.
htons_no_swap(le, x) == x

htons(le, x) == IF le THEN Swap16(x) ELSE x

ntohs(le, x) == IF le THEN Swap16(x) ELSE x

\* The two bytes a uint16_t variable holding x occupies in memory.
StoreU16(le, x) == IF le THEN <<x % 256, x \div 256>> ELSE <<x \div 256, x % 256>>

\* The uint16_t value read from two bytes of memory.
LoadU16(le, b) == IF le THEN b[1] + 256 * b[2] ELSE 256 * b[1] + b[2]

\* The Header struct: four uint16_t fields laid out in this order.
Header(mt, np, pid, rid) ==
    [message_type |-> mt, num_packets |-> np, packet_id |-> pid, reply_id |-> rid]

\* The 8 bytes a Header struct occupies in memory.
HeaderBytes(le, h) ==
    StoreU16(le, h.message_type) \o StoreU16(le, h.num_packets)
        \o StoreU16(le, h.packet_id) \o StoreU16(le, h.reply_id)

(***************************************************************************)
(* A data buffer as msg_new_data_space allocates it: header_len bytes of   *)
(* prefix, then the payload the msg_Data points to.                        *)
(***************************************************************************)
msg_new_data_space(src, num_bytes) ==
    [prefix |-> [i \in 1..header_len |-> 0], body |-> [src |-> src, len |-> num_bytes]]

\* msg_new_data: room for the string and its terminator, the string copied in.
msg_new_data(str) == msg_new_data_space(str, Len(str) + 1)

\* set_header writes a Header, every field through htons, over the 8 bytes
\* before data.bytes; the payload is not touched.
set_header(le, buf, msg_type, num_packets, packet_id, reply_id) ==
    [buf EXCEPT !.prefix =
        HeaderBytes(le, Header(htons(le, msg_type), htons(le, num_packets),
                               htons(le, packet_id), htons(le, reply_id)))]

\* The conversion loop of read_header over the 8 peeked bytes: the buffer is
\* read as four uint16_t and each is passed through ntohs.
DecodeHeader(le, bytes) ==
    Header(ntohs(le, LoadU16(le, SubSeq(bytes, 1, 2))),
           ntohs(le, LoadU16(le, SubSeq(bytes, 3, 4))),
           ntohs(le, LoadU16(le, SubSeq(bytes, 5, 6))),
           ntohs(le, LoadU16(le, SubSeq(bytes, 7, 8))))

\* What send()/sendto() put on the wire for a buffer: data.bytes - header_len,
\* data.num_bytes + header_len bytes, that is the prefix and then the payload.
WireBytes(buf) == [hdr |-> buf.prefix, body |-> buf.body]

\* msg_send: a one-way, single-packet header, then the buffer is sent.
msg_send(le, buf) == WireBytes(set_header(le, buf, one_way, 1, 0, 0))

\* msg_disconnect: a zero-length buffer with a close header is sent.
msg_disconnect(le) ==
    WireBytes(set_header(le, msg_new_data_space("", 0), close, 1, 0, 0))

(***************************************************************************)
(* Address specifications.  The string "<prefix><ip>:<port>" is kept as    *)
(* its three parts; inet_aton and strtol are tables over the strings used. *)
(***************************************************************************)
\* 127.0.0.1 as the number inet_aton yields for it.
IP_LOOPBACK == 127 * 16777216 + 1

AddrSpec(prefix, ip, port) == [prefix |-> prefix, ip |-> ip, port |-> port]

AddrSpecs ==
    { AddrSpec("udp://", "*", "9000"),
      AddrSpec("udp://", "127.0.0.1", "9001"),
      AddrSpec("udp://", "999.999.999.999", "1") }

\* inet_aton: 0 when the string is no IPv4 address, else 1 and the address.
inet_aton(ip_str) ==
    IF ip_str = "127.0.0.1" THEN [ok |-> 1, s_addr |-> IP_LOOPBACK]
    ELSE [ok |-> 0, s_addr |-> 0]

\* strtol(colon + 1, &end_ptr, 10): the value, and whether *end_ptr is '\0'.
strtol(port_str) ==
    IF port_str = "9000" THEN [value |-> 9000, at_end |-> TRUE]
    ELSE IF port_str = "9001" THEN [value |-> 9001, at_end |-> TRUE]
    ELSE IF port_str = "1" THEN [value |-> 1, at_end |-> TRUE]
    ELSE [value |-> 0, at_end |-> FALSE]

\* parse_address_str: the error message ("" is no_error) and conn with the
\* fields the parse has set by the time it returns.
parse_address_str(address, conn) ==
    LET c1 == IF address.prefix = "tcp://" THEN [conn EXCEPT !.protocol_type = SOCK_STREAM]
              ELSE IF address.prefix = "udp://" THEN [conn EXCEPT !.protocol_type = SOCK_DGRAM]
              ELSE conn
        ip == inet_aton(address.ip)
        c2 == IF address.ip = "*" THEN [c1 EXCEPT !.remote_ip = INADDR_ANY]
              ELSE [c1 EXCEPT !.remote_ip = ip.s_addr]
        port == strtol(address.port)
        c3 == [c2 EXCEPT !.remote_port = port.value]
    IN  IF address.prefix \notin {"tcp://", "udp://"}
            THEN [err |-> "Failing due to unrecognized prefix", conn |-> conn]
        ELSE IF Len(address.ip) > 15 \/ Len(address.ip) < 1
            THEN [err |-> "Failing because ip length", conn |-> c1]
        ELSE IF address.ip # "*" /\ ip.ok = 0
            THEN [err |-> "Couldn't parse ip string '" \o address.ip \o "'.", conn |-> c1]
        ELSE IF address.port = ""
            THEN [err |-> "Empty port string in address", conn |-> c2]
        ELSE IF ~port.at_end
            THEN [err |-> "Invalid port string in address", conn |-> c3]
        ELSE [err |-> "", conn |-> c3]

(***************************************************************************)
(* State.                                                                  *)
(***************************************************************************)
VARIABLES
    codec,                \* a header on its way from set_header to read_header
    little_endian,        \* byte order of the host
    debug,                \* the build defines DEBUG: assert is <assert.h>'s
    init_done,            \* init_if_needed's static flag
    conn_objs,            \* the msg_Conn objects malloc'ed so far, by pointer
    heap,                 \* the data buffers malloc'ed so far, by pointer
    sockets,              \* the kernel's sockets, by descriptor
    conns,                \* CArray of msg_Conn *
    poll_fds,             \* CArray of struct pollfd
    immediate_callbacks,  \* CArray of PendingCall
    conn_status,          \* CMap Address -> ConnStatus
    pc,                   \* where the thread is: idle, or inside msg_runloop
    poll_ret,             \* what poll returned in the running msg_runloop
    fd_idx,               \* position of the read phase's CArrayFor
    saved_immediate_callbacks,
    call_idx,             \* position of the dispatch phase's CArrayFor
    flushes,              \* history: dispatch phases started
    calls,                \* history: every PendingCall ever enqueued, by id
    invoked,              \* history: the callback invocations, in order
    opens,                \* history: the open_socket calls, by the conn each made
    reads,                \* history: the read_from_socket calls, in order
    frames,               \* history: datagrams the network has delivered
    faults,               \* history: system calls that have failed
    polls,                \* history: what poll returned, by tick
    disconnects           \* history: the msg_disconnect calls, in order

vars == <<codec, little_endian, debug, init_done, conn_objs, heap, sockets, conns, poll_fds,
          immediate_callbacks, conn_status, pc, poll_ret, fd_idx,
          saved_immediate_callbacks, call_idx, flushes, calls, invoked, opens,
          reads, frames, faults, polls, disconnects>>

Range(s) == {s[i] : i \in DOMAIN s}

msg_no_data == [num_bytes |-> 0, bytes |-> NULL]

\* The Address key of conn_status.
Address(ip, port, protocol_type) ==
    [ip |-> ip, port |-> port, protocol_type |-> protocol_type]

\* The globals the internal functions read and write, as one value.
Reactor ==
    [conn_objs |-> conn_objs, heap |-> heap, sockets |-> sockets, conns |-> conns,
     poll_fds |-> poll_fds, immediate_callbacks |-> immediate_callbacks,
     conn_status |-> conn_status, calls |-> calls, dead |-> "no", asserted |-> "no"]

(***************************************************************************)
(* Internal functions.  Each takes the globals r and returns them updated. *)
(***************************************************************************)

\* CArrayRemoveLast: the element at index count - 1 is removed.
CArrayRemoveLast(array) == SubSeq(array, 1, Len(array) - 1)

\* Mutant: the undo forgets the pollfd.
remove_last_polling_conn_conns_only(r) ==
    [r EXCEPT !.conns = CArrayRemoveLast(@)]

\* Mutant: the undo removes the first pair, not the last.
remove_first_polling_conn(r) ==
    [r EXCEPT !.conns = Tail(@), !.poll_fds = Tail(@)]

remove_last_polling_conn(r) ==
    [r EXCEPT !.conns = CArrayRemoveLast(@), !.poll_fds = CArrayRemoveLast(@)]

\* Mutant: the new PendingCall goes to the front of the queue.
send_callback_at_front(r, conn, event, data, to_free) ==
    LET pending_callback == [conn |-> conn, event |-> event, data |-> data,
                             to_free |-> to_free, id |-> Len(r.calls) + 1]
    IN  [r EXCEPT !.immediate_callbacks = <<pending_callback>> \o @,
                  !.calls = Append(@, [call |-> pending_callback, enq |-> flushes,
                                       in_flush |-> pc = "dispatch",
                                       at |-> Len(invoked)])]

\* send_callback appends a PendingCall and calls nothing.  The id, and the
\* entry of calls with the number of dispatch phases started (enq) and of
\* callbacks invoked (at) so far, are history.
send_callback(r, conn, event, data, to_free) ==
    LET pending_callback == [conn |-> conn, event |-> event, data |-> data,
                             to_free |-> to_free, id |-> Len(r.calls) + 1]
    IN  [r EXCEPT !.immediate_callbacks = Append(@, pending_callback),
                  !.calls = Append(@, [call |-> pending_callback, enq |-> flushes,
                                       in_flush |-> pc = "dispatch",
                                       at |-> Len(invoked)])]

\* Mutant: the error is enqueued twice, each call owning to_free.
send_callback_error_twice(r, conn, msg, to_free) ==
    LET buf == msg_new_data(msg)
        r1 == [r EXCEPT !.heap = Append(@, [kind |-> "error", body |-> buf.body,
                                            freed |-> FALSE])]
        data == [num_bytes |-> buf.body.len, bytes |-> Len(r1.heap)]
    IN  send_callback(send_callback(r1, conn, "msg_error", data, to_free),
                      conn, "msg_error", data, to_free)

\* send_callback_error: msg is copied into a new data buffer (msg_new_data).
send_callback_error(r, conn, msg, to_free) ==
    LET buf == msg_new_data(msg)
        r1 == [r EXCEPT !.heap = Append(@, [kind |-> "error", body |-> buf.body,
                                            freed |-> FALSE])]
    IN  send_callback(r1, conn, "msg_error",
                      [num_bytes |-> buf.body.len, bytes |-> Len(r1.heap)], to_free)

send_callback_os_error(r, conn, msg, strerror, to_free) ==
    send_callback_error(r, conn, msg \o ": " \o strerror, to_free)

\* Mutant: no lookup, every call counts as a new address.
remote_address_seen_no_lookup(r, conn, s_addr) ==
    LET address == Address(s_addr, r.conn_objs[conn].remote_port,
                           r.conn_objs[conn].protocol_type)
    IN  send_callback([r EXCEPT !.conn_status =
                          (address :> [last_seen_at |-> 0]) @@ @],
                      conn, "msg_connection_ready", msg_no_data, NULL)

\* Mutant: a new address is announced but never stored.
remote_address_seen_no_insert(r, conn, s_addr) ==
    LET address == Address(s_addr, r.conn_objs[conn].remote_port,
                           r.conn_objs[conn].protocol_type)
    IN  IF address \in DOMAIN r.conn_status
        THEN r
        ELSE send_callback(r, conn, "msg_connection_ready", msg_no_data, NULL)

\* remote_address_seen: the key is the sockaddr's ip with the conn's port and
\* protocol; a key not in conn_status is added and connection_ready is sent.
remote_address_seen(r, conn, s_addr) ==
    LET address == Address(s_addr, r.conn_objs[conn].remote_port,
                           r.conn_objs[conn].protocol_type)
    IN  IF address \in DOMAIN r.conn_status
        THEN r
        ELSE send_callback([r EXCEPT !.conn_status = @ @@ (address :> [last_seen_at |-> 0])],
                           conn, "msg_connection_ready", msg_no_data, NULL)

\* new_connection: a zeroed msg_Conn; the pointer is its index.
new_connection(r) ==
    [r EXCEPT !.conn_objs = Append(@, [socket |-> 0, for_listening |-> FALSE,
                                       protocol_type |-> 0, remote_ip |-> 0,
                                       remote_port |-> 0, reply_id |-> 0,
                                       freed |-> FALSE])]

\* setup_sockaddr: [r, ok, sockaddr].  sock_ok is whether socket() succeeds.
setup_sockaddr(r, address, conn, sock_ok) ==
    IF ~sock_ok
    THEN [r |-> send_callback_os_error(r, conn, "socket", "EMFILE", conn),
          ok |-> FALSE, sockaddr |-> [sin_port |-> 0, s_addr |-> 0]]
    ELSE
    LET sock == Len(r.sockets) + 1
        r1 == [r EXCEPT !.sockets = Append(@, [rcvq |-> <<>>, mode |-> "new",
                                               ip |-> 0, port |-> 0]),
                        !.conn_objs[conn].socket = sock,
                        !.conns = Append(@, conn),
                        !.poll_fds = Append(@, [fd |-> sock, events |-> "POLLIN",
                                                revents |-> FALSE])]
        parsed == parse_address_str(address, r1.conn_objs[conn])
        r2 == [r1 EXCEPT !.conn_objs[conn] = parsed.conn]
    IN  IF parsed.err # ""
        THEN [r |-> send_callback_error(remove_last_polling_conn(r2), conn, parsed.err, conn),
              ok |-> FALSE, sockaddr |-> [sin_port |-> 0, s_addr |-> 0]]
        ELSE [r |-> r2, ok |-> TRUE,
              sockaddr |-> [sin_port |-> htons(little_endian, parsed.conn.remote_port),
                            s_addr |-> parsed.conn.remote_ip]]

\* open_socket.  sys_ok is whether bind (for_listening) or connect succeeds.
open_socket(r, address, for_listening, sock_ok, sys_ok) ==
    LET conn == Len(r.conn_objs) + 1
        r1 == [new_connection(r) EXCEPT !.conn_objs[conn].for_listening = for_listening]
        su == setup_sockaddr(r1, address, conn, sock_ok)
        sock == su.r.conn_objs[conn].socket
        r2 == [su.r EXCEPT !.sockets[sock] =
                  [@ EXCEPT !.mode = IF for_listening THEN "bound" ELSE "connected",
                            !.ip = su.sockaddr.s_addr,
                            !.port = ntohs(little_endian, su.sockaddr.sin_port)]]
    IN  IF ~su.ok THEN su.r
        ELSE IF ~sys_ok
            THEN remove_last_polling_conn(
                     send_callback_os_error(su.r, conn, "bind", "EADDRINUSE", conn))
        ELSE IF for_listening
            THEN send_callback(r2, conn, "msg_listening", msg_no_data, NULL)
        ELSE remote_address_seen(r2, conn, su.sockaddr.s_addr)

\* What the uninitialised msg_Event event is taken to hold: the event of a
\* frame, or an int that is no event at all.
JunkEvents == {"msg_message", "garbage"}

\* Mutant: a failed peek is not reported.
read_header_silent(r, sock, conn, peek_ok) ==
    IF ~peek_ok
    THEN [r |-> r, ok |-> FALSE, header |-> Header(0, 0, 0, 0)]
    ELSE LET header == DecodeHeader(little_endian, Head(r.sockets[sock].rcvq).wire.hdr)
         IN  [r |-> [r EXCEPT !.conn_objs[conn].reply_id = header.reply_id],
              ok |-> TRUE, header |-> header]

\* Mutant: the decoded reply id is not stored in the conn.
read_header_keeps_reply_id(r, sock, conn, peek_ok) ==
    IF ~peek_ok
    THEN [r |-> send_callback_os_error(r, conn, "recv", "ECONNREFUSED", NULL),
          ok |-> FALSE, header |-> Header(0, 0, 0, 0)]
    ELSE [r |-> r, ok |-> TRUE,
          header |-> DecodeHeader(little_endian, Head(r.sockets[sock].rcvq).wire.hdr)]

\* read_header: [r, ok, header].  peek_ok is whether recv(MSG_PEEK) succeeds;
\* the peek leaves the datagram at the head of the socket's queue.
read_header(r, sock, conn, peek_ok) ==
    IF ~peek_ok
    THEN [r |-> send_callback_os_error(r, conn, "recv", "ECONNREFUSED", NULL),
          ok |-> FALSE, header |-> Header(0, 0, 0, 0)]
    ELSE LET header == DecodeHeader(little_endian, Head(r.sockets[sock].rcvq).wire.hdr)
         IN  [r |-> [r EXCEPT !.conn_objs[conn].reply_id = header.reply_id],
              ok |-> TRUE, header |-> header]

\* The single-packet branch of read_from_socket.  recv_ok is whether recvfrom
\* succeeds; it takes the datagram off the queue and copies at most
\* recv_buffer_len bytes of it into the new buffer.
read_single_packet(r, sock, conn, event, recv_ok) ==
    LET dgram == Head(r.sockets[sock].rcvq)
        buffer == Len(r.heap) + 1
        bytes_recvd == Min(header_len + dgram.wire.body.len, recv_buffer_len)
        data == [num_bytes |-> bytes_recvd - header_len, bytes |-> buffer]
        remote_sockaddr == [sin_port |-> htons(little_endian, dgram.from.port),
                            s_addr |-> dgram.from.ip]
        r1 == [r EXCEPT !.heap = Append(@, [kind |-> "recv",
                                            body |-> [src |-> "", len |-> 0],
                                            freed |-> FALSE])]
        r2 == [r1 EXCEPT !.sockets[sock].rcvq = Tail(@),
                         !.heap[buffer].body = [src |-> dgram.wire.body.src,
                                                len |-> data.num_bytes],
                         !.conn_objs[conn].remote_ip = remote_sockaddr.s_addr,
                         !.conn_objs[conn].remote_port =
                             ntohs(little_endian, remote_sockaddr.sin_port)]
    IN  IF ~recv_ok
        THEN send_callback_os_error(r1, conn, "recvfrom", "ECONNREFUSED", NULL)
        ELSE send_callback(remote_address_seen(r2, conn, remote_sockaddr.s_addr),
                           conn, event, data, NULL)

\* read_from_socket.  assert(0) ends the process in a DEBUG build and is
\* nothing otherwise: event then keeps whatever it held, junk.  asserted is
\* history: the first assert(0) the call came to, the switch's ("type") or
\* the multi-packet branch's ("packets").
read_from_socket(r, sock, conn, peek_ok, recv_ok, junk) ==
    LET rh == read_header(r, sock, conn, peek_ok)
        known == rh.header.message_type \in {one_way, request, reply}
        event == IF rh.header.message_type = one_way THEN "msg_message"
                 ELSE IF rh.header.message_type = request THEN "msg_request"
                 ELSE IF rh.header.message_type = reply THEN "msg_reply"
                 ELSE junk
        r1 == IF known THEN rh.r ELSE [rh.r EXCEPT !.asserted = "type"]
    IN  IF ~rh.ok THEN rh.r
        ELSE IF ~known /\ debug THEN [r1 EXCEPT !.dead = "abort"]
        ELSE IF rh.header.num_packets = 1
            THEN read_single_packet(r1, sock, conn, event, recv_ok)
        ELSE IF debug THEN [r1 EXCEPT !.dead = "abort", !.asserted = "packets"]
        ELSE IF known THEN [r1 EXCEPT !.asserted = "packets"]
        ELSE r1

(***************************************************************************)
(* The initial state: no public function has been called yet.              *)
(***************************************************************************)
NoCodec == [stage |-> "none"]

\* The reactor before any public function is called, on a little-endian
\* host, in the given build.
InitReactor(dbg) ==
    /\ little_endian = TRUE
    /\ debug = dbg
    /\ init_done = FALSE
    /\ conn_objs = <<>>
    /\ heap = <<>>
    /\ sockets = <<>>
    /\ conns = <<>>
    /\ poll_fds = <<>>
    /\ immediate_callbacks = <<>>
    /\ conn_status = <<>>
    /\ pc = "idle"
    /\ poll_ret = "none"
    /\ fd_idx = 0
    /\ saved_immediate_callbacks = <<>>
    /\ call_idx = 0
    /\ flushes = 0
    /\ calls = <<>>
    /\ invoked = <<>>
    /\ opens = <<>>
    /\ reads = <<>>
    /\ frames = 0
    /\ faults = 0
    /\ polls = <<>>
    /\ disconnects = <<>>

Init ==
    /\ codec = NoCodec
    /\ \E dbg \in BOOLEAN : InitReactor(dbg)

\* The globals after a function returned them as r.
Commit(r) ==
    /\ conn_objs' = r.conn_objs
    /\ heap' = r.heap
    /\ sockets' = r.sockets
    /\ conns' = r.conns
    /\ poll_fds' = r.poll_fds
    /\ immediate_callbacks' = r.immediate_callbacks
    /\ conn_status' = r.conn_status
    /\ calls' = r.calls

(***************************************************************************)
(* msg_listen and msg_connect.  A call is the address, the role and which  *)
(* system call fails, if any.                                              *)
(***************************************************************************)
ParseOk(address) == parse_address_str(address, [protocol_type |-> 0, remote_ip |-> 0,
                                                remote_port |-> 0]).err = ""

OpenArgs ==
    {a \in [address : AddrSpecs, for_listening : BOOLEAN, fault : {"none", "socket", "sys"}] :
        /\ Len(opens) < MaxConns
        /\ a.address.ip = "*" => a.for_listening
        /\ a.fault # "none" => faults < MaxFaults
        /\ a.fault # "none" => ParseOk(a.address)}

OpenResult(r, a) ==
    open_socket(r, a.address, a.for_listening, a.fault # "socket", a.fault # "sys")

\* The fields parse_address_str gives a zeroed conn for address.
Parsed(address) ==
    parse_address_str(address, [protocol_type |-> 0, remote_ip |-> 0, remote_port |-> 0]).conn

\* History of one open_socket call that took the globals from r to r2: what
\* was asked, the pending calls it enqueued, and the registered set and the
\* registry before and after.
OpenEntry(r, r2, a) ==
    [kind |-> "open",
     seq |-> Len(opens) + Len(reads) + 1,
     conn |-> Len(r.conn_objs) + 1,
     for_listening |-> a.for_listening,
     valid |-> ParseOk(a.address),
     fault |-> a.fault,
     key |-> Address(Parsed(a.address).remote_ip, Parsed(a.address).remote_port,
                     Parsed(a.address).protocol_type),
     events |-> [i \in 1..(Len(r2.calls) - Len(r.calls)) |->
                    r2.calls[Len(r.calls) + i].call],
     registered |-> (Len(r.conn_objs) + 1) \in Range(r2.conns),
     restored |-> r2.conns = r.conns /\ r2.poll_fds = r.poll_fds
                  /\ r2.conn_status = r.conn_status,
     by_callback |-> pc = "dispatch"]

TickUnchanged == UNCHANGED <<pc, poll_ret, fd_idx, saved_immediate_callbacks, call_idx,
                             flushes, invoked>>

OpenCall(a) ==
    /\ pc = "idle"
    /\ Commit(OpenResult(Reactor, a))
    /\ opens' = Append(opens, OpenEntry(Reactor, OpenResult(Reactor, a), a))
    /\ faults' = IF a.fault = "none" THEN faults ELSE faults + 1
    /\ init_done' = TRUE
    /\ TickUnchanged
    /\ UNCHANGED <<polls, disconnects, codec, little_endian, debug, reads, frames>>

msg_listen == \E a \in OpenArgs : a.for_listening /\ OpenCall(a)

msg_connect == \E a \in OpenArgs : ~a.for_listening /\ OpenCall(a)

(***************************************************************************)
(* The network: a peer's datagram reaches a registered socket.  A bound    *)
(* socket takes datagrams from any peer, a connected one from the address  *)
(* it is connected to.                                                     *)
(***************************************************************************)
Peer(port) == [ip |-> IP_LOOPBACK, port |-> port]

\* What a peer running this library on a host of byte order le can send,
\* each with the peer it comes from.
PeerDatagrams(le) ==
    { [from |-> Peer(5001), wire |-> msg_send(le, msg_new_data("hi"))],
      [from |-> Peer(5001),
       wire |-> msg_send(le, msg_new_data_space("big", recv_buffer_len - header_len + 1))],
      [from |-> Peer(9001),
       wire |-> WireBytes(set_header(le, msg_new_data("get"), request, 1, 0, 1))],
      [from |-> Peer(5001),
       wire |-> WireBytes(set_header(le, msg_new_data("re"), reply, 1, 0, 32769))],
      [from |-> Peer(5001),
       wire |-> WireBytes(set_header(le, msg_new_data_space("", 0), heartbeat, 1, 0, 0))],
      [from |-> Peer(5001),
       wire |-> WireBytes(set_header(le, msg_new_data("part"), one_way, 2, 0, 0))],
      [from |-> Peer(9001), wire |-> msg_disconnect(le)] }

\* Whatever happens between two calls of the public functions is seen by
\* the next one only, so datagrams arrive while the thread is outside them.
PeerSend ==
    /\ pc = "idle"
    /\ frames < MaxFrames
    /\ \E i \in DOMAIN poll_fds, le \in BOOLEAN :
         \E dgram \in PeerDatagrams(le) :
            LET sock == poll_fds[i].fd
            IN  /\ sockets[sock].mode = "connected" =>
                      dgram.from = [ip |-> sockets[sock].ip, port |-> sockets[sock].port]
                /\ sockets' = [sockets EXCEPT ![sock].rcvq = Append(@, dgram)]
    /\ frames' = frames + 1
    /\ UNCHANGED <<polls, disconnects, codec, little_endian, debug, init_done,
                   conn_objs, heap, conns, poll_fds,
                   immediate_callbacks, conn_status, pc, poll_ret, fd_idx,
                   saved_immediate_callbacks, call_idx, flushes, calls, invoked,
                   opens, reads, faults>>

(***************************************************************************)
(* msg_disconnect, called by the application between two ticks on a conn   *)
(* it connected.  It holds a msg_Conn * only from a callback's argument,   *)
(* msg_listen and msg_connect returning nothing.  The close frame leaves   *)
(* for the peer the socket is connected to and the buffer stays allocated; *)
(* no global of the reactor is written.                                    *)
(***************************************************************************)
Disconnect ==
    /\ pc = "idle"
    /\ Len(disconnects) < MaxDisconnects
    /\ \E conn \in Range(conns) :
          /\ ~conn_objs[conn].for_listening
          /\ \E j \in DOMAIN invoked : calls[invoked[j].id].call.conn = conn
          /\ heap' = Append(heap, [kind |-> "close",
                                   body |-> msg_disconnect(little_endian).body,
                                   freed |-> FALSE])
          /\ disconnects' = Append(disconnects,
                                   [conn |-> conn, socket |-> conn_objs[conn].socket,
                                    wire |-> msg_disconnect(little_endian),
                                    flush |-> flushes])
    /\ UNCHANGED <<polls, codec, little_endian, debug, init_done, conn_objs, sockets, conns,
                   poll_fds, immediate_callbacks, conn_status, pc, poll_ret, fd_idx,
                   saved_immediate_callbacks, call_idx, flushes, calls, invoked, opens,
                   reads, frames, faults>>

(***************************************************************************)
(* msg_runloop, in the steps a callback or the network can come between:   *)
(* the poll call, one read_from_socket per ready socket, the swap of the   *)
(* callback queue, one callback invocation per saved call, the return.     *)
(***************************************************************************)

\* poll: readable is every socket with a datagram queued.  A failed poll
\* (ret = -1) leaves the array as it was.  msg_runloop does not call
\* init_if_needed: before the first open_socket poll_fds is NULL and
\* poll_fds->count is a read through a null pointer.
\* Mutant: an interrupted poll is taken for one that returned events.
poll_failed_unless_interrupted(res) == res \notin {"ok", "EINTR"}

\* ret == -1: poll failed, whatever errno says.
poll_failed(res) == res # "ok"

Poll ==
    /\ pc = "idle"
    /\ flushes < MaxTicks
    /\ IF ~init_done
       THEN /\ pc' = "segv"
            /\ UNCHANGED <<poll_fds, poll_ret, fd_idx, faults, polls>>
       ELSE \E res \in {"ok", "EINTR", "EINVAL"} :
            /\ res # "ok" => faults < MaxFaults
            /\ faults' = IF res = "ok" THEN faults ELSE faults + 1
            /\ poll_ret' = res
            /\ polls' = Append(polls, res)
            /\ poll_fds' = IF ~poll_failed(res)
                           THEN [i \in DOMAIN poll_fds |->
                                   [poll_fds[i] EXCEPT !.revents =
                                       sockets[poll_fds[i].fd].rcvq # <<>>]]
                           ELSE poll_fds
            /\ IF /\ ~poll_failed(res)
                  /\ \E i \in DOMAIN poll_fds : sockets[poll_fds[i].fd].rcvq # <<>>
               THEN pc' = "read" /\ fd_idx' = 1
               ELSE pc' = "swap" /\ fd_idx' = fd_idx
    /\ UNCHANGED <<disconnects, codec, little_endian, debug, init_done, conn_objs, heap,
                   sockets, conns, immediate_callbacks, conn_status,
                   saved_immediate_callbacks, call_idx, flushes, calls, invoked, opens,
                   reads, frames>>

\* History of one read_from_socket call that took the globals from r to r2:
\* the datagram at the head of the queue, its sender as a key, whether it was
\* taken off the queue, the pending calls enqueued, and the registered set
\* and the registry compared before and after.
ReadEntry(r, r2, sock, conn, fault) ==
    [kind |-> "read",
     seq |-> Len(opens) + Len(reads) + 1,
     conn |-> conn,
     dgram |-> Head(r.sockets[sock].rcvq),
     fault |-> fault,
     key |-> Address(Head(r.sockets[sock].rcvq).from.ip,
                     Head(r.sockets[sock].rcvq).from.port,
                     r.conn_objs[conn].protocol_type),
     consumed |-> Len(r2.sockets[sock].rcvq) < Len(r.sockets[sock].rcvq),
     events |-> [i \in 1..(Len(r2.calls) - Len(r.calls)) |->
                    r2.calls[Len(r.calls) + i].call],
     dead |-> r2.dead,
     asserted |-> r2.asserted,
     kept |-> r2.conns = r.conns /\ r2.poll_fds = r.poll_fds
              /\ r2.conn_status = r.conn_status,
     flush |-> flushes]

\* One pass of the read phase's loop body.
ReadFromSocket ==
    /\ pc = "read"
    /\ LET poll_fd == poll_fds[fd_idx]
           index == fd_idx
           conn == conns[index]
           hdr == DecodeHeader(little_endian, Head(sockets[poll_fd.fd].rcvq).wire.hdr)
           junks == IF debug \/ hdr.message_type \in {one_way, request, reply}
                    THEN {"msg_message"} ELSE JunkEvents
           \* recvfrom is called, so can fail, on the single-packet branch only
           recvfrom_called == /\ hdr.num_packets = 1
                              /\ debug => hdr.message_type \in {one_way, request, reply}
           read_faults == IF recvfrom_called THEN {"none", "peek", "recv"}
                          ELSE {"none", "peek"}
       IN  IF ~poll_fd.revents
           THEN /\ pc' = IF fd_idx = Len(poll_fds) THEN "swap" ELSE "read"
                /\ UNCHANGED <<conn_objs, heap, sockets, conns, poll_fds,
                               immediate_callbacks, conn_status, calls, reads, faults>>
           ELSE \E fault \in read_faults, junk \in junks :
                LET r == read_from_socket(Reactor, poll_fd.fd, conn,
                                          fault # "peek", fault # "recv", junk)
                IN  /\ fault # "none" => faults < MaxFaults
                    /\ faults' = IF fault = "none" THEN faults ELSE faults + 1
                    /\ Commit(r)
                    /\ reads' = Append(reads, ReadEntry(Reactor, r, poll_fd.fd, conn, fault))
                    /\ pc' = IF r.dead # "no" THEN "aborted"
                             ELSE IF fd_idx = Len(poll_fds) THEN "swap" ELSE "read"
    /\ fd_idx' = fd_idx + 1
    /\ UNCHANGED <<polls, disconnects, codec, little_endian, debug, init_done, poll_ret,
                   saved_immediate_callbacks,
                   call_idx, flushes, invoked, opens, frames>>

\* Mutant: the queue is saved but not replaced.
NewImmediateCallbacks_same_array(saved) == saved

\* The array msg_runloop leaves in immediate_callbacks when it saves the old one.
NewImmediateCallbacks(saved) == <<>>

SwapCallbacks ==
    /\ pc = "swap"
    /\ saved_immediate_callbacks' = immediate_callbacks
    /\ immediate_callbacks' = NewImmediateCallbacks(immediate_callbacks)
    /\ flushes' = flushes + 1
    /\ call_idx' = 1
    /\ pc' = "dispatch"
    /\ UNCHANGED <<polls, disconnects, codec, little_endian, debug, init_done,
                   conn_objs, heap, sockets, conns,
                   poll_fds, conn_status, poll_ret, fd_idx, calls, invoked, opens,
                   reads, frames, faults>>

\* free(call->to_free): to_free is only ever a msg_Conn *.
Free(r, to_free) ==
    IF to_free = NULL THEN r ELSE [r EXCEPT !.conn_objs[to_free].freed = TRUE]

\* What the user's callback does before it returns: nothing the reactor
\* sees, or one msg_listen / msg_connect.
CallbackActs == {[op |-> "return"]} \cup {[op |-> "open", args |-> a] : a \in OpenArgs}

\* One pass of the dispatch phase's loop body: the callback, then the free.
InvokeCallback ==
    /\ pc = "dispatch"
    /\ call_idx <= Len(saved_immediate_callbacks)
    /\ LET call == saved_immediate_callbacks[call_idx]
       IN  /\ invoked' = Append(invoked,
                  [id |-> call.id, flush |-> flushes,
                   conn_freed |-> conn_objs[call.conn].freed,
                   data_freed |-> call.data.bytes # NULL /\ heap[call.data.bytes].freed,
                   remote_ip |-> conn_objs[call.conn].remote_ip,
                   remote_port |-> conn_objs[call.conn].remote_port,
                   reply_id |-> conn_objs[call.conn].reply_id])
           /\ \E act \in CallbackActs :
                LET r1 == IF act.op = "open" THEN OpenResult(Reactor, act.args) ELSE Reactor
                IN  /\ Commit(Free(r1, call.to_free))
                    /\ opens' = IF act.op = "open"
                                THEN Append(opens, OpenEntry(Reactor, r1, act.args))
                                ELSE opens
                    /\ faults' = IF act.op = "open" /\ act.args.fault # "none"
                                 THEN faults + 1 ELSE faults
    /\ call_idx' = call_idx + 1
    /\ UNCHANGED <<polls, disconnects, codec, little_endian, debug, init_done, pc, poll_ret, fd_idx,
                   saved_immediate_callbacks, flushes, reads, frames>>

\* CArrayDelete(saved_immediate_callbacks) and the return.
EndTick ==
    /\ pc = "dispatch"
    /\ call_idx > Len(saved_immediate_callbacks)
    /\ saved_immediate_callbacks' = <<>>
    /\ pc' = "idle"
    /\ poll_ret' = "none"
    /\ fd_idx' = 0
    /\ call_idx' = 0
    /\ UNCHANGED <<polls, disconnects, codec, little_endian, debug, init_done,
                   conn_objs, heap, sockets, conns,
                   poll_fds, immediate_callbacks, conn_status,
                   flushes, calls, invoked, opens, reads, frames, faults>>

Next ==
    \/ msg_listen
    \/ msg_connect
    \/ Disconnect
    \/ PeerSend
    \/ Poll
    \/ ReadFromSocket
    \/ SwapCallbacks
    \/ InvokeCallback
    \/ EndTick

Spec == Init /\ [][Next]_vars

(***************************************************************************)
(* Helpers of the properties.                                              *)
(***************************************************************************)
\* How many elements of the sequence q satisfy Test.
Count(q, Test(_)) == Cardinality({i \in DOMAIN q : Test(q[i])})

IsError(call) == call.event = "msg_error"

IsReady(call) == call.event = "msg_connection_ready"

IsListening(call) == call.event = "msg_listening"

\* The open_socket call succeeded: every setup step went through.
SetupOk(o) == o.valid /\ o.fault = "none"

\* The ids of the pending calls of a queue, in queue order.
Ids(q) == [i \in DOMAIN q |-> q[i].id]

\* The ids of calls, ascending, that satisfy Test.
IdsWhere(Test(_)) == SelectSeq([k \in DOMAIN calls |-> k], Test)

\* The ids invoked so far whose invocation satisfies Test, in invocation order.
InvokedWhere(Test(_)) == Ids(SelectSeq(invoked, Test))

TypeOK ==
    /\ Len(opens) = Len(conn_objs)
    /\ \A c \in DOMAIN opens : opens[c].conn = c
    /\ \A k \in DOMAIN calls : calls[k].call.id = k
    /\ pc \in {"idle", "read", "swap", "dispatch", "aborted", "segv"}

(***************************************************************************)
(* C1.  A msg_listen or msg_connect with a valid address ends in exactly   *)
(* one of two ways: the conn is registered and a listening event (listen)  *)
(* or a connection_ready event (connect) and no error event was enqueued   *)
(* for it; or the conn is not registered and exactly one error event was   *)
(* enqueued for it.                                                        *)
(***************************************************************************)
OpenSucceeded(o) ==
    /\ o.registered
    /\ \E i \in DOMAIN o.events :
          IF o.for_listening THEN IsListening(o.events[i]) ELSE IsReady(o.events[i])
    /\ Count(o.events, IsError) = 0

OpenFailed(o) ==
    /\ ~o.registered
    /\ Count(o.events, IsError) = 1

C1_OpenOutcome ==
    \A c \in DOMAIN opens :
        opens[c].valid => (OpenSucceeded(opens[c]) # OpenFailed(opens[c]))

(***************************************************************************)
(* C2.  A msg_listen or msg_connect that fails at socket creation, at the  *)
(* address parse or at bind/connect enqueues exactly one error event and   *)
(* no listening or connection_ready event for its conn and leaves conns,   *)
(* poll_fds and conn_status as they were before the call; so every conn in *)
(* conns is one whose setup succeeded.                                     *)
(***************************************************************************)
C2_SetupFailure ==
    /\ \A c \in DOMAIN opens :
          ~SetupOk(opens[c]) =>
              /\ Len(opens[c].events) = 1
              /\ IsError(opens[c].events[1])
              /\ opens[c].events[1].conn = c
              /\ opens[c].restored
              /\ ~opens[c].registered
    /\ Len(conns) = Len(poll_fds)
    /\ \A i \in DOMAIN conns :
          /\ SetupOk(opens[conns[i]])
          /\ poll_fds[i].fd = conn_objs[conns[i]].socket

\* A bind or connect failed while another conn was registered, and a tick
\* has started since.
C2_Witness ==
    /\ \E c \in DOMAIN opens : opens[c].fault = "sys"
    /\ Len(conns) = 1
    /\ pc = "read"

(***************************************************************************)
(* Dispatch.  calls[k].enq is the number of dispatch phases started when   *)
(* call k was enqueued, so the first phase to start after that is number   *)
(* enq + 1; invoked[j].flush is the number of the phase that made the      *)
(* invocation.                                                             *)
(***************************************************************************)
\* Dispatch phase f has run to its end.
FlushDone(f) == flushes > f \/ (flushes = f /\ pc # "dispatch")

\* How many times call k has been invoked.
TimesInvoked(k) == Cardinality({j \in DOMAIN invoked : invoked[j].id = k})

\* The calls enqueued between the start of phase f - 1 and the start of f.
ScheduledFor(f) == IdsWhere(LAMBDA k : calls[k].enq = f - 1)

\* The calls phase f has invoked so far, in order.
InvokedIn(f) == InvokedWhere(LAMBDA e : e.flush = f)

(***************************************************************************)
(* C3.  A pending call enqueued by a callback during the dispatch phase of *)
(* tick k is not among the calls that phase iterates, is not invoked in it *)
(* and is invoked in the dispatch phase of tick k + 1; the phase in        *)
(* progress iterates exactly the calls scheduled before it started, in     *)
(* their order, each once.                                                 *)
(***************************************************************************)
C3_ReentrantEnqueue ==
    /\ \A k \in DOMAIN calls :
          calls[k].in_flush =>
              /\ \A j \in DOMAIN invoked :
                    invoked[j].id = k => invoked[j].flush = calls[k].enq + 1
              /\ (pc = "dispatch" /\ flushes = calls[k].enq) =>
                    /\ k \notin Range(Ids(saved_immediate_callbacks))
                    /\ k \in Range(Ids(immediate_callbacks))
              /\ FlushDone(calls[k].enq + 1) => TimesInvoked(k) = 1
    /\ pc = "dispatch" =>
          /\ Ids(saved_immediate_callbacks) = ScheduledFor(flushes)
          /\ InvokedIn(flushes) = SubSeq(Ids(saved_immediate_callbacks), 1, call_idx - 1)

\* A callback enqueued a call, the dispatch phase went on to invoke a call
\* scheduled before it, and the next phase invoked the new call.
C3_Witness ==
    \E k \in DOMAIN calls :
        /\ calls[k].in_flush
        /\ TimesInvoked(k) = 1
        /\ \E j \in DOMAIN invoked :
              j > calls[k].at + 1 /\ invoked[j].flush = calls[k].enq

(***************************************************************************)
(* C4.  Every pending call is invoked exactly once: not when it is         *)
(* enqueued but by the first dispatch phase that starts afterwards, the    *)
(* calls of one phase in the order they were enqueued; until then it sits  *)
(* in exactly one queue, and once that phase is over it is in none.        *)
(***************************************************************************)
C4_ExactlyOnce ==
    /\ \A j \in DOMAIN invoked : invoked[j].flush = calls[invoked[j].id].enq + 1
    /\ \A j1, j2 \in DOMAIN invoked :
          (j1 < j2 /\ invoked[j1].flush = invoked[j2].flush) => invoked[j1].id < invoked[j2].id
    /\ \A k \in DOMAIN calls :
          /\ TimesInvoked(k) <= 1
          /\ FlushDone(calls[k].enq + 1) =>
                /\ TimesInvoked(k) = 1
                /\ k \notin Range(Ids(immediate_callbacks))
                /\ k \notin Range(Ids(saved_immediate_callbacks))
          /\ TimesInvoked(k) = 0 =>
                (k \in Range(Ids(immediate_callbacks)))
                    # (k \in Range(Ids(saved_immediate_callbacks)))
    /\ \A i, j \in DOMAIN immediate_callbacks :
          i < j => immediate_callbacks[i].id < immediate_callbacks[j].id

\* Two dispatch phases are over; calls enqueued by a failed msg_listen or
\* msg_connect and by the read phase have been invoked.
C4_Witness ==
    /\ pc = "idle"
    /\ flushes = 2
    /\ \E j \in DOMAIN invoked :
          /\ IsError(calls[invoked[j].id].call)
          /\ \E c \in DOMAIN opens : opens[c].events # <<>> /\ opens[c].events[1].id = invoked[j].id
    /\ \E j \in DOMAIN invoked, n \in DOMAIN reads :
          /\ Len(reads[n].events) = 2
          /\ reads[n].events[2].id = invoked[j].id

(***************************************************************************)
(* Peer observation.  remote_address_seen runs for a msg_connect whose     *)
(* setup succeeded and for a datagram that recvfrom took off the queue.    *)
(***************************************************************************)
\* The connects and reads that observed a peer, as history entries.
Observations ==
    {opens[c] : c \in {d \in DOMAIN opens : SetupOk(opens[d]) /\ ~opens[d].for_listening}}
        \cup {reads[n] : n \in {m \in DOMAIN reads : reads[m].consumed}}

ObservedKeys == {e.key : e \in Observations}

\* The ids of the connection_ready calls an open or a read enqueued.
ReadyIds(e) == {e.events[i].id : i \in {j \in DOMAIN e.events : IsReady(e.events[j])}}

\* The connection_ready calls enqueued when key was observed.
ReadyIdsFor(key) == UNION {ReadyIds(e) : e \in {o \in Observations : o.key = key}}

EarlierOn(e, conn, seq) == e.conn = conn /\ e.seq < seq

FirstOnConn(n) ==
    ~\E e \in Observations : EarlierOn(e, reads[n].conn, reads[n].seq) /\ e.key = reads[n].key

FirstAnywhere(n) ==
    ~\E e \in Observations : e.seq < reads[n].seq /\ e.key = reads[n].key

ReadyOnOwnConn(n) ==
    \E i \in DOMAIN reads[n].events :
        IsReady(reads[n].events[i]) /\ reads[n].events[i].conn = reads[n].conn

SentWithSend(dgram) ==
    \E le \in BOOLEAN :
        dgram.wire = msg_send(le, [prefix |-> [i \in 1..header_len |-> 0],
                                   body |-> dgram.wire.body])

ReceivedSize(dgram) == Min(header_len + dgram.wire.body.len, recv_buffer_len)

\* Invocations j and j + 1 are of calls a and b, both in dispatch phase f.
InvokedAdjacent(a, b, f) ==
    \E j \in DOMAIN invoked :
        /\ j + 1 \in DOMAIN invoked
        /\ invoked[j].id = a /\ invoked[j].flush = f
        /\ invoked[j + 1].id = b /\ invoked[j + 1].flush = f

(***************************************************************************)
(* C7.  A single-packet one-way frame sent with msg_send and read on a     *)
(* listening conn from a peer key not seen before enqueues a               *)
(* connection_ready event and then one message event for that conn, the    *)
(* tick's dispatch phase invokes them one right after the other in that    *)
(* order, and the message's payload has length (received size - 8) and     *)
(* the bytes of the payload the sender passed to msg_send.                 *)
(***************************************************************************)
C7_ReadyThenMessage ==
    \A n \in DOMAIN reads :
        LET e == reads[n]
        IN  (e.consumed /\ opens[e.conn].for_listening /\ SentWithSend(e.dgram)
                /\ FirstAnywhere(n)) =>
                /\ Len(e.events) = 2
                /\ IsReady(e.events[1]) /\ e.events[1].conn = e.conn
                /\ e.events[2].event = "msg_message" /\ e.events[2].conn = e.conn
                /\ e.events[2].data.num_bytes = ReceivedSize(e.dgram) - header_len
                /\ heap[e.events[2].data.bytes].body = e.dgram.wire.body
                /\ FlushDone(e.flush + 1) =>
                      InvokedAdjacent(e.events[1].id, e.events[2].id, e.flush + 1)

\* C7 with the payload no longer than the receive buffer leaves room for:
\* this holds, so the truncation by recvfrom is the only way C7 fails.
C7_PayloadsThatFit ==
    \A n \in DOMAIN reads :
        LET e == reads[n]
        IN  (e.consumed /\ opens[e.conn].for_listening /\ SentWithSend(e.dgram)
                /\ FirstAnywhere(n)
                /\ e.dgram.wire.body.len <= recv_buffer_len - header_len) =>
                /\ Len(e.events) = 2
                /\ IsReady(e.events[1]) /\ e.events[1].conn = e.conn
                /\ e.events[2].event = "msg_message" /\ e.events[2].conn = e.conn
                /\ e.events[2].data.num_bytes = ReceivedSize(e.dgram) - header_len
                /\ heap[e.events[2].data.bytes].body = e.dgram.wire.body
                /\ FlushDone(e.flush + 1) =>
                      InvokedAdjacent(e.events[1].id, e.events[2].id, e.flush + 1)

(***************************************************************************)
(* C8.  Every payload buffer handed to a callback is allocated while the   *)
(* callback runs and has been released by the time the tick is over: when  *)
(* msg_runloop has returned, no buffer delivered so far is still           *)
(* allocated.                                                              *)
(***************************************************************************)
C8_BuffersReleased ==
    /\ \A j \in DOMAIN invoked : ~invoked[j].data_freed
    /\ pc = "idle" =>
          \A j \in DOMAIN invoked :
              LET data == calls[invoked[j].id].call.data
              IN  data.bytes # NULL => heap[data.bytes].freed

(***************************************************************************)
(* C10.  For every conn, the message, request and reply events invoked on  *)
(* it so far are, in invocation order, the first ones of the frames read   *)
(* on it, in the order they were read: none is invoked before one read     *)
(* earlier, none twice.                                                    *)
(***************************************************************************)
FrameEvents == {"msg_message", "msg_request", "msg_reply"}

\* The calls carrying the frames read on conn, in read order.
FrameCallsRead(conn) ==
    LET mine == SelectSeq(reads, LAMBDA e : e.consumed /\ e.conn = conn
                                            /\ e.events[Len(e.events)].event \in FrameEvents)
    IN  [i \in DOMAIN mine |-> mine[i].events[Len(mine[i].events)].id]

\* The frame events invoked on conn, in invocation order.
FrameCallsInvoked(conn) ==
    InvokedWhere(LAMBDA e : calls[e.id].call.conn = conn
                            /\ calls[e.id].call.event \in FrameEvents)

C10_DeliveryOrder ==
    \A conn \in DOMAIN conn_objs :
        /\ Len(FrameCallsInvoked(conn)) <= Len(FrameCallsRead(conn))
        /\ FrameCallsInvoked(conn) =
              SubSeq(FrameCallsRead(conn), 1, Len(FrameCallsInvoked(conn)))

\* Two frames read on one conn in two ticks have both been delivered, a
\* request and then a message.
C10_Witness ==
    \E conn \in DOMAIN conn_objs :
        /\ Len(FrameCallsInvoked(conn)) = 2
        /\ calls[FrameCallsInvoked(conn)[1]].call.event = "msg_request"
        /\ calls[FrameCallsInvoked(conn)[2]].call.event = "msg_message"

(***************************************************************************)
(* The codec on its own: a header written by set_header on a host of byte  *)
(* order enc_le and decoded as read_header does on a host of byte order    *)
(* dec_le, for every message type and every 16-bit reply id.               *)
(***************************************************************************)
MessageTypes == {one_way, request, reply, heartbeat, close}

CodecPayloads == {msg_new_data("hi").body, msg_new_data_space("", 0).body}

InitCodec ==
    /\ InitReactor(FALSE)
    /\ codec \in [stage : {"input"}, enc_le : BOOLEAN, dec_le : BOOLEAN,
                  msg_type : MessageTypes, body : CodecPayloads]

\* set_header on the sender's buffer, the buffer on the wire, the decode of
\* the 8 header bytes at the receiver.
CodecRoundTrip ==
    /\ codec.stage = "input"
    /\ \E reply_id \in U16 :
          LET buf == set_header(codec.enc_le,
                                [prefix |-> [i \in 1..header_len |-> 0], body |-> codec.body],
                                codec.msg_type, 1, 0, reply_id)
          IN  codec' = [stage |-> "done", enc_le |-> codec.enc_le, dec_le |-> codec.dec_le,
                        msg_type |-> codec.msg_type, body |-> codec.body,
                        reply_id |-> reply_id, buf |-> buf,
                        header |-> DecodeHeader(codec.dec_le, WireBytes(buf).hdr)]
    /\ UNCHANGED <<little_endian, debug, init_done, conn_objs, heap, sockets, conns,
                   poll_fds, immediate_callbacks, conn_status, pc, poll_ret, fd_idx,
                   saved_immediate_callbacks, call_idx, flushes, calls, invoked, opens,
                   reads, frames, faults, polls, disconnects>>

SpecCodec == InitCodec /\ [][CodecRoundTrip]_vars

(***************************************************************************)
(* C9.  Header round trip: for every message type, numPackets = 1,         *)
(* packetId = 0 and every 16-bit replyId, the header set_header writes     *)
(* into the 8 bytes before the payload decodes, as read_header decodes it, *)
(* to the same four field values, and the encode leaves the payload bytes  *)
(* unchanged.                                                              *)
(***************************************************************************)
C9_HeaderRoundTrip ==
    codec.stage = "done" =>
        /\ codec.header = Header(codec.msg_type, 1, 0, codec.reply_id)
        /\ codec.buf.body = codec.body
        /\ Len(codec.buf.prefix) = header_len

\* A close header with a reply id whose two bytes differ and whose high bit
\* is set went from a little-endian to a big-endian host.
C9_Witness ==
    /\ codec.stage = "done"
    /\ codec.enc_le /\ ~codec.dec_le
    /\ codec.msg_type = close
    /\ codec.reply_id = 32769
    /\ codec.body.len = 3

(***************************************************************************)
(* The read phase.  The header a read decoded is the one read_header       *)
(* decodes from the datagram at the head of the queue.  Tick t is the one  *)
(* that made the t-th poll call: its reads carry flush = t - 1 and its     *)
(* dispatch phase is number t.                                             *)
(***************************************************************************)
HeaderOf(dgram) == DecodeHeader(little_endian, dgram.wire.hdr)

\* The sockets msg_runloop hands to poll.
Polled == {poll_fds[i].fd : i \in DOMAIN poll_fds}

\* The read got past read_header: the peek succeeded.
HeaderDecoded(e) == e.fault # "peek"

(***************************************************************************)
(* C11.  Every decoded header whose message type is one of the five kinds  *)
(* one_way, request, reply, heartbeat, close is classified: the read does  *)
(* not come to the assert(0) of the switch's default.  Heartbeat and close *)
(* frames are among them.                                                  *)
(***************************************************************************)
C11_TypesClassified ==
    \A n \in DOMAIN reads :
        (HeaderDecoded(reads[n]) /\ HeaderOf(reads[n].dgram).message_type \in MessageTypes)
            => reads[n].asserted # "type"

(***************************************************************************)
(* C12.  A read that decodes a header with num_packets > 1 is a fatal      *)
(* stop: no event is enqueued for the frame and the process has ended, so  *)
(* msg_runloop neither goes on nor runs again.                             *)
(***************************************************************************)
C12_MultiPacketFatal ==
    \A n \in DOMAIN reads :
        (HeaderDecoded(reads[n]) /\ HeaderOf(reads[n].dgram).num_packets > 1) =>
            /\ reads[n].events = <<>>
            /\ reads[n].dead = "abort"
            /\ pc = "aborted"

(***************************************************************************)
(* C13.  A read whose recv(MSG_PEEK) or recvfrom fails enqueues exactly    *)
(* one error event, for its conn and owning nothing, and no other event;   *)
(* conns, poll_fds and conn_status are as before the read and the process  *)
(* goes on; and every socket poll reported readable in a tick is read in   *)
(* that tick, whatever happened to the sockets before it.                  *)
(***************************************************************************)
\* The sockets of poll_fds[1..upto] that poll reported readable have been
\* read in the running tick.
ReadyRead(upto) ==
    \A i \in 1..upto :
        poll_fds[i].revents =>
            \E n \in DOMAIN reads : reads[n].flush = flushes /\ reads[n].conn = conns[i]

C13_RecvFailure ==
    /\ \A n \in DOMAIN reads :
          reads[n].fault \in {"peek", "recv"} =>
              /\ Len(reads[n].events) = 1
              /\ IsError(reads[n].events[1])
              /\ reads[n].events[1].conn = reads[n].conn
              /\ reads[n].events[1].to_free = NULL
              /\ reads[n].kept
              /\ reads[n].conn \in Range(conns)
              /\ conn_objs[reads[n].conn].socket \in Polled
              /\ reads[n].dead = "no"
    /\ (pc = "read" /\ poll_ret = "ok") => ReadyRead(fd_idx - 1)
    /\ (pc = "swap" /\ poll_ret = "ok") => ReadyRead(Len(poll_fds))

\* recvfrom failed on one socket and the next ready socket of the same tick
\* was read and its frame taken.
C13_Witness ==
    \E n1, n2 \in DOMAIN reads :
        /\ n1 < n2
        /\ reads[n1].fault = "recv"
        /\ reads[n2].flush = reads[n1].flush
        /\ reads[n2].conn # reads[n1].conn
        /\ reads[n2].consumed

(***************************************************************************)
(* msg_disconnect.  disconnects[i].flush is the number of ticks made       *)
(* before the call, so a later tick has polled when Len(polls) is larger.  *)
(***************************************************************************)

(***************************************************************************)
(* C14.  Once msg_disconnect(conn) has been called on a registered conn,   *)
(* no later tick polls conn or its socket and no message, request or reply *)
(* event is delivered on conn in a later tick.                             *)
(***************************************************************************)
C14_ClosedConnLeaves ==
    \A i \in DOMAIN disconnects :
        LET d == disconnects[i]
        IN  /\ Len(polls) > d.flush =>
                  /\ d.conn \notin Range(conns)
                  /\ d.socket \notin Polled
            /\ \A j \in DOMAIN invoked :
                  (invoked[j].flush > d.flush /\ calls[invoked[j].id].call.conn = d.conn)
                      => calls[invoked[j].id].call.event \notin FrameEvents

(***************************************************************************)
(* C15.  As claimed: in a tick whose poll fails with EINTR no socket is    *)
(* read and no callback is invoked.                                        *)
(***************************************************************************)
\* No read_from_socket call was made in tick t.
NothingRead(t) == \A n \in DOMAIN reads : reads[n].flush # t - 1

C15_NoEventsProcessed ==
    \A t \in DOMAIN polls :
        polls[t] = "EINTR" =>
            /\ NothingRead(t)
            /\ \A j \in DOMAIN invoked : invoked[j].flush # t

(***************************************************************************)
(* C15, amended.  A tick whose poll fails with EINTR skips the read phase  *)
(* only: no socket is read, so the read phase enqueues nothing and changes *)
(* nothing, and the tick still runs its dispatch phase, which invokes      *)
(* every call that was pending when it started, each once and in order.    *)
(* The tick after it polls and reads as any other.                         *)
(***************************************************************************)
C15_InterruptedTick ==
    \A t \in DOMAIN polls :
        polls[t] = "EINTR" =>
            /\ NothingRead(t)
            /\ FlushDone(t) => InvokedIn(t) = ScheduledFor(t)
            /\ (flushes = t /\ pc = "dispatch") =>
                   Ids(saved_immediate_callbacks) = ScheduledFor(t)

\* The first tick was interrupted and still invoked a pending call; the
\* second read a frame and delivered it.
C15_Witness ==
    /\ Len(polls) = 2
    /\ polls[1] = "EINTR"
    /\ \E j \in DOMAIN invoked : invoked[j].flush = 1
    /\ \E n \in DOMAIN reads, j \in DOMAIN invoked :
          /\ reads[n].flush = 1 /\ reads[n].consumed
          /\ invoked[j].id = reads[n].events[Len(reads[n].events)].id

(***************************************************************************)
(* C16.  Every read whose receive calls succeed takes exactly one frame    *)
(* off its socket's queue, whatever the frame's message type or            *)
(* num_packets: the frame decoded in one tick is not there in the next.    *)
(***************************************************************************)
C16_OneFramePerRead ==
    \A n \in DOMAIN reads :
        (reads[n].fault = "none" /\ reads[n].dead = "no") => reads[n].consumed

(***************************************************************************)
(* C17.  When the callback of a message, request or reply event runs, the  *)
(* conn it is given holds the remote ip, the remote port and the reply id  *)
(* of the frame whose payload the event delivers.                          *)
(***************************************************************************)
\* The call that carries the frame of read e: the last one it enqueued.
FrameCall(e) == e.events[Len(e.events)]

C17_ConnCarriesFrame ==
    \A n \in DOMAIN reads :
        (reads[n].consumed /\ FrameCall(reads[n]).event \in FrameEvents) =>
            \A j \in DOMAIN invoked :
                invoked[j].id = FrameCall(reads[n]).id =>
                    /\ invoked[j].remote_ip = reads[n].dgram.from.ip
                    /\ invoked[j].remote_port = reads[n].dgram.from.port
                    /\ invoked[j].reply_id = HeaderOf(reads[n].dgram).reply_id

\* A listening conn was given frames of two peers, with two reply ids, in
\* two ticks, and both callbacks have run.
C17_Witness ==
    \E n1, n2 \in DOMAIN reads, j1, j2 \in DOMAIN invoked :
        /\ reads[n1].conn = reads[n2].conn
        /\ opens[reads[n1].conn].for_listening
        /\ reads[n1].flush < reads[n2].flush
        /\ reads[n1].consumed /\ reads[n2].consumed
        /\ reads[n1].dgram.from # reads[n2].dgram.from
        /\ HeaderOf(reads[n1].dgram).reply_id # HeaderOf(reads[n2].dgram).reply_id
        /\ HeaderOf(reads[n1].dgram).reply_id # 0
        /\ FrameCall(reads[n1]).event \in FrameEvents
        /\ FrameCall(reads[n2]).event \in FrameEvents
        /\ invoked[j1].id = FrameCall(reads[n1]).id
        /\ invoked[j2].id = FrameCall(reads[n2]).id

(***************************************************************************)
(* C18.  Outside open_socket, conns and poll_fds have the same length,     *)
(* poll_fds[i].fd is the socket of conns[i], no conn is registered twice   *)
(* and no two registered conns have the same socket; a failed setup that   *)
(* had added its pair removed that pair and no other.                      *)
(***************************************************************************)
C18_ParallelArrays ==
    /\ Len(poll_fds) = Len(conns)
    /\ \A i \in DOMAIN conns : poll_fds[i].fd = conn_objs[conns[i]].socket
    /\ \A i, j \in DOMAIN conns :
          i # j => /\ conns[i] # conns[j]
                   /\ conn_objs[conns[i]].socket # conn_objs[conns[j]].socket
    /\ \A c \in DOMAIN opens :
          (~SetupOk(opens[c]) /\ opens[c].fault # "socket") =>
              /\ opens[c].restored
              /\ c \notin Range(conns)
              /\ conn_objs[c].socket \notin Polled

\* With one conn registered, a setup failed at the address parse, after it
\* had added its pair, and a callback is about to run.
C18_Witness ==
    /\ pc = "dispatch"
    /\ Len(conns) = 1
    /\ \E c \in DOMAIN opens :
          /\ ~opens[c].valid
          /\ conns[1] < c

(***************************************************************************)
(* C19.  A conn is freed at most once, only if its setup failed and only   *)
(* after its one error callback has run; no call still to be invoked, in   *)
(* immediate_callbacks or in the saved array, and no entry of conns points *)
(* to a freed conn, and no callback was invoked with a freed conn.         *)
(***************************************************************************)
\* How many times free was called on conn c: once per invocation of a call
\* that owns it.
Frees(c) == Cardinality({j \in DOMAIN invoked : calls[invoked[j].id].call.to_free = c})

\* The calls of the saved array that the dispatch phase has yet to invoke.
StillToInvoke ==
    IF pc = "dispatch"
    THEN SubSeq(saved_immediate_callbacks, call_idx, Len(saved_immediate_callbacks))
    ELSE saved_immediate_callbacks

C19_ConnFreedOnce ==
    /\ \A c \in DOMAIN conn_objs :
          /\ Frees(c) <= 1
          /\ conn_objs[c].freed <=> Frees(c) = 1
          /\ conn_objs[c].freed =>
                /\ ~SetupOk(opens[c])
                /\ Len(opens[c].events) = 1
                /\ IsError(opens[c].events[1])
                /\ TimesInvoked(opens[c].events[1].id) = 1
    /\ \A i \in DOMAIN immediate_callbacks : ~conn_objs[immediate_callbacks[i].conn].freed
    /\ \A i \in DOMAIN StillToInvoke : ~conn_objs[StillToInvoke[i].conn].freed
    /\ \A i \in DOMAIN conns : ~conn_objs[conns[i]].freed
    /\ \A j \in DOMAIN invoked : ~invoked[j].conn_freed

\* A conn whose setup failed has been freed while the dispatch phase still
\* has a call of a registered conn to invoke.
C19_Witness ==
    /\ pc = "dispatch"
    /\ \E c \in DOMAIN conn_objs : conn_objs[c].freed
    /\ call_idx <= Len(saved_immediate_callbacks)
    /\ conns # <<>>

(***************************************************************************)
(* C20.  msg_runloop can be called in any state, before the first          *)
(* msg_listen or msg_connect too: the globals are initialised by then and  *)
(* the call does not crash.                                                *)
(***************************************************************************)
C20_TickBeforeInit == pc # "segv"

=============================================================================
